---- MODULE Spec2Model ----
(***************************************************************************)
(* Model of src/src/project.rs: the directed graph built from an edge      *)
(* stream (Graph::init), Graph::reverse, Graph::degree, the degree and     *)
(* closeness centralities and Graph::shortest_paths.                       *)
(*                                                                         *)
(* Node labels are Rust Strings.  They are modelled by the naturals        *)
(* 1..MaxNodes, label i standing for the i-th of MaxNodes distinct strings *)
(* in ascending lexicographic order ("A" < "B" < ...), so that `<` on      *)
(* labels is String's Ord.                                                 *)
(*                                                                         *)
(* f32 scores are modelled by exact fractions [num, den]; den = 0 stands   *)
(* for the IEEE results of a division by zero (inf when num > 0, NaN when  *)
(* num = 0).                                                               *)
(***************************************************************************)
EXTENDS Integers, Sequences, FiniteSets, Bags, TLC

\* Bounds of the model: number of distinct labels and length of the edge stream.
MaxNodes == 4
MaxEdges == 3

Names == 1..MaxNodes

\* The records of the .tsv file: (SOURCE_SUBREDDIT, TARGET_SUBREDDIT) pairs.
Records == Names \X Names

RECURSIVE SeqsUpTo(_, _)
SeqsUpTo(S, n) ==
    IF n = 0 THEN {<<>>}
    ELSE LET shorter == SeqsUpTo(S, n - 1)
         IN  shorter \cup {Append(s, x) : s \in {t \in shorter : Len(t) = n - 1}, x \in S}

\* The contents a data file can have, up to the bound.
Files == SeqsUpTo(Records, MaxEdges)

Range(s) == {s[i] : i \in DOMAIN s}

\* Number of occurrences of x in the sequence s.
Count(s, x) == Cardinality({i \in DOMAIN s : s[i] = x})

\* The orders in which a HashSet / HashMap with element (key) set S can be iterated.
RECURSIVE Orders(_)
Orders(S) ==
    IF S = {} THEN {<<>>}
    ELSE UNION {{<<x>> \o o : o \in Orders(S \ {x})} : x \in S}

VARIABLES
    pc,         \* "new" after Graph::new(), "built" after Graph::init
    graph,      \* the Graph struct: size, adjacency_dict, nodes
    ret,        \* the value the last call returned; NoCall while a call is running
    sp,         \* the locals of a running shortest_paths call
    cc,         \* the locals of a running closeness_centrality call
    panicked    \* "" or the message of the .expect() that failed

vars == <<pc, graph, ret, sp, cc, panicked>>

----------------------------------------------------------------------------
\* Graph::new
NewGraph == [size |-> 0, nodes |-> {}, adjacency_dict |-> [n \in {} |-> <<>>]]

\* Faulty variant of UniqueSubs: the TARGET_SUBREDDIT insert is left out.
UniqueSubsSourcesOnly(raw_data_list) ==
    {raw_data_list[i][1] : i \in DOMAIN raw_data_list}

\* unique_subs after the loop of project.rs:50-53
UniqueSubs(raw_data_list) ==
    {raw_data_list[i][1] : i \in DOMAIN raw_data_list}
        \cup {raw_data_list[i][2] : i \in DOMAIN raw_data_list}

\* for node in &self.nodes { self.adjacency_dict.insert(node, Vec::new()) }
InsertEmpty(adjacency_dict, nodes) ==
    [n \in (DOMAIN adjacency_dict) \cup nodes |->
        IF n \in nodes THEN <<>> ELSE adjacency_dict[n]]

\* the loop of project.rs:63-72: push every TARGET onto the vector of its SOURCE
RECURSIVE PushConnections(_, _)
PushConnections(adjacency_dict, raw_data_list) ==
    IF raw_data_list = <<>> THEN adjacency_dict
    ELSE LET node == Head(raw_data_list)[1]
             connection == Head(raw_data_list)[2]
         IN  PushConnections([adjacency_dict EXCEPT ![node] = Append(@, connection)],
                             Tail(raw_data_list))

\* .get_mut(node).expect("error fetching node from adjacency dict") fails
InitPanics(self, raw_data_list) ==
    \E i \in DOMAIN raw_data_list :
        raw_data_list[i][1] \notin (DOMAIN self.adjacency_dict) \cup UniqueSubs(raw_data_list)

\* Graph::init: the graph after the call
GraphInit(self, raw_data_list) ==
    LET unique_subs == UniqueSubs(raw_data_list)
    IN  [size |-> Cardinality(unique_subs),
         nodes |-> unique_subs,
         adjacency_dict |->
            PushConnections(InsertEmpty(self.adjacency_dict, unique_subs), raw_data_list)]

----------------------------------------------------------------------------
\* project.rs:110-112: an empty vector for every node
EmptyAdjacency(nodes) == [n \in nodes |-> <<>>]

\* Faulty variant of PushReversed: a node already in the vector is not pushed again.
RECURSIVE PushReversedOnce(_, _, _)
PushReversedOnce(adjacency_dict, node, outedges) ==
    IF outedges = <<>> THEN adjacency_dict
    ELSE PushReversedOnce(
            [adjacency_dict EXCEPT ![Head(outedges)] =
                IF \E i \in DOMAIN @ : @[i] = node THEN @ ELSE Append(@, node)],
            node, Tail(outedges))

\* project.rs:117-119: push `node` onto the vector of each of its outedges
RECURSIVE PushReversed(_, _, _)
PushReversed(adjacency_dict, node, outedges) ==
    IF outedges = <<>> THEN adjacency_dict
    ELSE PushReversed([adjacency_dict EXCEPT ![Head(outedges)] = Append(@, node)],
                      node, Tail(outedges))

\* project.rs:114-120, the nodes of self being iterated in `order`
RECURSIVE ReverseLoop(_, _, _)
ReverseLoop(self, adjacency_dict, order) ==
    IF order = <<>> THEN adjacency_dict
    ELSE ReverseLoop(self,
                     PushReversed(adjacency_dict, Head(order), self.adjacency_dict[Head(order)]),
                     Tail(order))

\* one of the two .expect("msg") of Graph::reverse fails
ReversePanics(self) ==
    \/ \E node \in self.nodes : node \notin DOMAIN self.adjacency_dict
    \/ \E node \in self.nodes \cap DOMAIN self.adjacency_dict :
          \E i \in DOMAIN self.adjacency_dict[node] :
              self.adjacency_dict[node][i] \notin self.nodes

\* Graph::reverse: the graph returned
Reverse(self, order) ==
    [size |-> self.size,
     nodes |-> self.nodes,
     adjacency_dict |-> ReverseLoop(self, EmptyAdjacency(self.nodes), order)]

----------------------------------------------------------------------------
\* Faulty variant of InsertByKeyDesc: the key is not wrapped in Reverse (ascending).
RECURSIVE InsertByKeyAsc(_, _)
InsertByKeyAsc(sorted, x) ==
    IF sorted = <<>> THEN <<x>>
    ELSE IF x[2] < Head(sorted)[2] THEN <<x>> \o sorted
    ELSE <<Head(sorted)>> \o InsertByKeyAsc(Tail(sorted), x)

\* degree.sort_by_key(|v| Reverse(v.1)): a stable sort, descending by v.1.
\* x is placed before the first element whose key is strictly smaller.
RECURSIVE InsertByKeyDesc(_, _)
InsertByKeyDesc(sorted, x) ==
    IF sorted = <<>> THEN <<x>>
    ELSE IF Head(sorted)[2] < x[2] THEN <<x>> \o sorted
    ELSE <<Head(sorted)>> \o InsertByKeyDesc(Tail(sorted), x)

RECURSIVE SortByKeyDesc(_, _)
SortByKeyDesc(sorted, rest) ==
    IF rest = <<>> THEN sorted
    ELSE SortByKeyDesc(InsertByKeyDesc(sorted, Head(rest)), Tail(rest))

\* Graph::degree, the adjacency_dict being iterated in `order`
Degree(self, order) ==
    SortByKeyDesc(<<>>,
        [i \in DOMAIN order |-> <<order[i], Len(self.adjacency_dict[order[i]])>>])

\* node.1 as f32 / (self.size - 1) as f32.  self.size - 1 is a usize
\* subtraction; it is evaluated once per element of degree(), so never with
\* size = 0 on a graph whose adjacency keys are its nodes.
Normalize(deg, size) == [num |-> deg, den |-> size - 1]

\* the loops of project.rs:138-140 and 157-159
Centrality(degree, size) ==
    [i \in DOMAIN degree |-> <<degree[i][1], Normalize(degree[i][2], size)>>]

\* Graph::out_degree_centrality
OutDegreeCentrality(self, order) == Centrality(Degree(self, order), self.size)

\* Graph::in_degree_centrality; revOrder is the iteration order inside reverse()
InDegreeCentrality(self, revOrder, order) ==
    Centrality(Degree(Reverse(self, revOrder), order), self.size)

----------------------------------------------------------------------------
\* Ord of the tuple (String, usize): lexicographic, the label first
TupleLeq(a, b) == a[1] < b[1] \/ (a[1] = b[1] /\ a[2] <= b[2])

\* BinaryHeap<Reverse<(String, usize)>>::pop: the least tuple of the heap
PopEntry(pq) ==
    CHOOSE e \in BagToSet(pq) : \A f \in BagToSet(pq) : TupleLeq(e, f)

\* Faulty variant of PopRest: the entry is peeked at, not removed.
PeekRest(pq) == pq

\* the heap after that pop
PopRest(pq) == pq (-) SetToBag({PopEntry(pq)})

\* HashMap::insert
MapInsert(map, key, value) ==
    [k \in (DOMAIN map) \cup {key} |-> IF k = key THEN value ELSE map[k]]

\* let new_dist = dist + 1
NewDist(dist) == dist + 1

\* Faulty variant of Update: the recorded distance is not compared.
UpdateAlways(distances, outedge, new_dist) == TRUE

\* let update = match distances.get(outedge) { None => true, Some(d) => new_dist < *d }
Update(distances, outedge, new_dist) ==
    IF outedge \notin DOMAIN distances THEN TRUE ELSE new_dist < distances[outedge]

\* the for loop of project.rs:218-229 over the outedges of the popped node;
\* st holds the locals distances and pq
RECURSIVE Relax(_, _, _)
Relax(st, outedges, dist) ==
    IF outedges = <<>> THEN st
    ELSE LET outedge == Head(outedges)
             new_dist == NewDist(dist)
         IN  IF Update(st.distances, outedge, new_dist)
             THEN Relax([distances |-> MapInsert(st.distances, outedge, new_dist),
                         pq |-> st.pq (+) SetToBag({<<outedge, new_dist>>})],
                        Tail(outedges), dist)
             ELSE Relax(st, Tail(outedges), dist)

\* the locals after project.rs:210-214
SpStart(start) ==
    [distances |-> MapInsert([n \in {} |-> 0], start, 0),
     pq |-> SetToBag({<<start, 0>>})]

\* self.adjacency_dict.get(&node).expect("outedges") fails for the entry popped next
IterationPanics(self, st) == PopEntry(st.pq)[1] \notin DOMAIN self.adjacency_dict

\* one iteration of the while let loop of project.rs:216-230
Iteration(self, st) ==
    LET node == PopEntry(st.pq)[1]
        dist == PopEntry(st.pq)[2]
    IN  Relax([distances |-> st.distances, pq |-> PopRest(st.pq)],
              self.adjacency_dict[node], dist)

\* Graph::shortest_paths run to its return: the map `distances`
RECURSIVE RunLoop(_, _)
RunLoop(self, st) ==
    IF st.pq = EmptyBag THEN st.distances ELSE RunLoop(self, Iteration(self, st))

ShortestPaths(self, start) == RunLoop(self, SpStart(start))

----------------------------------------------------------------------------
\* 0.0
Zero == [num |-> 0, den |-> 1]

\* shortest_paths.values().sum()
RECURSIVE SumValues(_, _)
SumValues(map, keys) ==
    IF keys = {} THEN 0
    ELSE LET k == CHOOSE x \in keys : TRUE
         IN  map[k] + SumValues(map, keys \ {k})

\* Faulty variant of ClosenessGraph: the graph is not reversed.
ClosenessGraphSelf(self, order) == self

\* let graph = self.reverse(), the nodes of self being iterated in `order`
ClosenessGraph(self, order) == Reverse(self, order)

\* let big_n = graph.size as f32 - 1.0
BigN(graph_) == graph_.size - 1

\* ((n - 1.0) / (big_n - 1.0)) * (n / sum_dists as f32), as the fraction
\* ((n - 1) * n) / ((big_n - 1) * sum_dists)
Closeness(n, big_n, sum_dists) ==
    IF sum_dists # 0
    THEN [num |-> (n - 1) * n, den |-> (big_n - 1) * sum_dists]
    ELSE Zero

\* the closure of project.rs:180-192 applied to one node: the pair it yields
NodeCloseness(big_n, shortest_paths) ==
    Closeness(Cardinality(DOMAIN shortest_paths), big_n,
              SumValues(shortest_paths, DOMAIN shortest_paths))

\* f32 comparison a < b (partial_cmp gives Less); den = 0 is inf or NaN
IsNaN(a) == a.den = 0 /\ a.num = 0
IsInf(a) == a.den = 0 /\ a.num # 0
FloatLess(a, b) ==
    /\ ~IsNaN(a)
    /\ ~IsNaN(b)
    /\ IF IsInf(a) THEN FALSE
       ELSE IF IsInf(b) THEN TRUE
       ELSE a.num * b.den < b.num * a.den

\* centralities_sorted.sort_by(|a, b| b.1.partial_cmp(&a.1).unwrap_or(Equal)):
\* a stable sort, descending by score
RECURSIVE InsertByScoreDesc(_, _)
InsertByScoreDesc(sorted, x) ==
    IF sorted = <<>> THEN <<x>>
    ELSE IF FloatLess(Head(sorted)[2], x[2]) THEN <<x>> \o sorted
    ELSE <<Head(sorted)>> \o InsertByScoreDesc(Tail(sorted), x)

RECURSIVE SortByScoreDesc(_, _)
SortByScoreDesc(sorted, rest) ==
    IF rest = <<>> THEN sorted
    ELSE SortByScoreDesc(InsertByScoreDesc(sorted, Head(rest)), Tail(rest))

\* Faulty variant of Joined: the sort does not wait for the workers.
JoinedEarly(cc_) == TRUE

\* collect() returns only when every element of the parallel iterator is mapped
Joined(cc_) == cc_.pending = {}

----------------------------------------------------------------------------
NoCall == [op |-> "none", val |-> <<>>]
SpIdle == [phase |-> "idle"]
CcIdle == [phase |-> "idle"]

Init ==
    /\ pc = "new"
    /\ graph = NewGraph
    /\ ret = NoCall
    /\ sp = SpIdle
    /\ cc = CcIdle
    /\ panicked = ""

\* main.rs:4-5: graph.init(path) on the fresh graph
CallInit ==
    /\ pc = "new"
    /\ panicked = ""
    /\ \E raw_data_list \in Files :
          IF InitPanics(graph, raw_data_list)
          THEN /\ panicked' = "error fetching node from adjacency dict"
               /\ UNCHANGED <<pc, graph>>
          ELSE /\ graph' = GraphInit(graph, raw_data_list)
               /\ pc' = "built"
               /\ UNCHANGED panicked
    /\ UNCHANGED <<ret, sp, cc>>

\* no call is running, so a method of the built graph can be called
Callable == pc = "built" /\ panicked = "" /\ sp.phase = "idle" /\ cc.phase = "idle"

\* graph.reverse()
CallReverse ==
    /\ Callable
    /\ IF ReversePanics(graph)
       THEN /\ panicked' = "msg"
            /\ UNCHANGED ret
       ELSE /\ \E order \in Orders(graph.nodes) :
                 ret' = [op |-> "reverse", val |-> Reverse(graph, order)]
            /\ UNCHANGED panicked
    /\ UNCHANGED <<pc, graph, sp, cc>>

\* graph.degree()
CallDegree ==
    /\ Callable
    /\ \E order \in Orders(DOMAIN graph.adjacency_dict) :
          ret' = [op |-> "degree", val |-> Degree(graph, order)]
    /\ UNCHANGED <<pc, graph, sp, cc, panicked>>

\* graph.out_degree_centrality()
CallOutDegreeCentrality ==
    /\ Callable
    /\ \E order \in Orders(DOMAIN graph.adjacency_dict) :
          ret' = [op |-> "out_degree_centrality", val |-> OutDegreeCentrality(graph, order)]
    /\ UNCHANGED <<pc, graph, sp, cc, panicked>>

\* graph.in_degree_centrality(): reverse() iterates the nodes in one order,
\* degree() the adjacency_dict of the reversed graph in another
CallInDegreeCentrality ==
    /\ Callable
    /\ IF ReversePanics(graph)
       THEN /\ panicked' = "msg"
            /\ UNCHANGED ret
       ELSE /\ \E revOrder \in Orders(graph.nodes) :
                 \E order \in Orders(graph.nodes) :
                    ret' = [op |-> "in_degree_centrality",
                            val |-> InDegreeCentrality(graph, revOrder, order)]
            /\ UNCHANGED panicked
    /\ UNCHANGED <<pc, graph, sp, cc>>

\* graph.shortest_paths(start): project.rs:210-214
CallShortestPaths ==
    /\ Callable
    /\ \E start \in graph.nodes :
          sp' = [phase |-> "run", start |-> start, last |-> <<>>,
                 distances |-> SpStart(start).distances, pq |-> SpStart(start).pq]
    /\ ret' = NoCall
    /\ UNCHANGED <<pc, graph, cc, panicked>>

\* one iteration of the while let loop: a pop and the relaxation of all outedges
ShortestPathsLoop ==
    /\ sp.phase = "run"
    /\ panicked = ""
    /\ sp.pq # EmptyBag
    /\ IF IterationPanics(graph, sp)
       THEN /\ panicked' = "outedges"
            /\ UNCHANGED sp
       ELSE /\ LET st == Iteration(graph, sp)
               IN  sp' = [sp EXCEPT !.distances = st.distances, !.pq = st.pq,
                                    !.last = PopEntry(sp.pq)]
            /\ UNCHANGED panicked
    /\ UNCHANGED <<pc, graph, ret, cc>>

\* pq.pop() is None: the loop ends and distances is returned
ShortestPathsReturn ==
    /\ sp.phase = "run"
    /\ panicked = ""
    /\ sp.pq = EmptyBag
    /\ ret' = [op |-> "shortest_paths", start |-> sp.start, val |-> sp.distances]
    /\ sp' = SpIdle
    /\ UNCHANGED <<pc, graph, cc, panicked>>

\* graph.closeness_centrality(): project.rs:176-178, then the fan-out begins
CallClosenessCentrality ==
    /\ Callable
    /\ IF ReversePanics(graph)
       THEN /\ panicked' = "msg"
            /\ UNCHANGED cc
       ELSE /\ \E order \in Orders(graph.nodes) :
                 LET graph_ == ClosenessGraph(graph, order)
                 IN  cc' = [phase |-> "par",
                            graph |-> graph_,
                            nodes |-> graph_.nodes,
                            big_n |-> BigN(graph_),
                            pending |-> graph_.nodes,
                            shortest_paths |-> [n \in {} |-> <<>>],
                            centralities |-> [n \in {} |-> Zero]]
            /\ UNCHANGED panicked
    /\ ret' = NoCall
    /\ UNCHANGED <<pc, graph, sp>>

\* a rayon worker maps one node: the body of the closure of project.rs:180-192
ClosenessWorker ==
    /\ cc.phase = "par"
    /\ panicked = ""
    /\ \E node \in cc.pending :
          LET shortest_paths == ShortestPaths(cc.graph, node)
          IN  cc' = [cc EXCEPT
                        !.pending = @ \ {node},
                        !.shortest_paths = MapInsert(@, node, shortest_paths),
                        !.centralities =
                            MapInsert(@, node, NodeCloseness(cc.big_n, shortest_paths))]
    /\ UNCHANGED <<pc, graph, ret, sp, panicked>>

\* collect() returns the pairs in an iteration order of `nodes`; they are sorted and returned
ClosenessSort ==
    /\ cc.phase = "par"
    /\ panicked = ""
    /\ Joined(cc)
    /\ \E order \in Orders(DOMAIN cc.centralities) :
          ret' = [op |-> "closeness_centrality",
                  val |-> SortByScoreDesc(<<>>,
                             [i \in DOMAIN order |-> <<order[i], cc.centralities[order[i]]>>])]
    /\ cc' = CcIdle
    /\ UNCHANGED <<pc, graph, sp, panicked>>

NextGraph ==
    \/ CallInit
    \/ CallReverse
    \/ CallDegree
    \/ CallOutDegreeCentrality
    \/ CallInDegreeCentrality

SpecGraph == Init /\ [][NextGraph]_vars

NextSP ==
    \/ CallInit
    \/ CallReverse
    \/ CallShortestPaths
    \/ ShortestPathsLoop
    \/ ShortestPathsReturn

SpecSP == Init /\ [][NextSP]_vars

\* The loop is sequential code that runs on: an enabled iteration or return is taken.
SpecSPFair == SpecSP /\ WF_vars(ShortestPathsLoop) /\ WF_vars(ShortestPathsReturn)

NextCC ==
    \/ CallInit
    \/ CallClosenessCentrality
    \/ ClosenessWorker
    \/ ClosenessSort

SpecCC == Init /\ [][NextCC]_vars

----------------------------------------------------------------------------
(***************************************************************************)
(* Definitions used to state the properties, independent of the code.      *)
(***************************************************************************)

\* The arcs of a graph, and arcs flipped.
Arcs(g) ==
    {a \in (DOMAIN g.adjacency_dict) \X Names :
        \E i \in DOMAIN g.adjacency_dict[a[1]] : g.adjacency_dict[a[1]][i] = a[2]}
Flip(arcs) == {<<a[2], a[1]>> : a \in arcs}

\* The nodes at which a directed path of exactly k arcs from v can end.
RECURSIVE WalkEnds(_, _, _)
WalkEnds(arcs, v, k) ==
    IF k = 0 THEN {v}
    ELSE {a[2] : a \in {b \in arcs : b[1] \in WalkEnds(arcs, v, k - 1)}}

\* For every node reachable from v, the least number of arcs of a path from v to it.
HopMap(arcs, nodes, v) ==
    LET lengths == 0..Cardinality(nodes)
        reachable == UNION {WalkEnds(arcs, v, k) : k \in lengths}
    IN  [w \in reachable |->
            CHOOSE k \in lengths :
                /\ w \in WalkEnds(arcs, v, k)
                /\ \A j \in 0..(k - 1) : w \notin WalkEnds(arcs, v, j)]

GraphInvariant(g) ==
    /\ DOMAIN g.adjacency_dict = g.nodes
    /\ \A n \in DOMAIN g.adjacency_dict : Range(g.adjacency_dict[n]) \subseteq g.nodes
    /\ g.size = Cardinality(g.nodes)

HasSelfLoop(g) == \E u \in DOMAIN g.adjacency_dict : Count(g.adjacency_dict[u], u) >= 1
HasDuplicateArc(g) ==
    \E u \in DOMAIN g.adjacency_dict : \E w \in Names :
        w # u /\ Count(g.adjacency_dict[u], w) >= 2

\* The pairs of `table` name every element of `keys` exactly once.
OnePairPer(table, keys) ==
    /\ Len(table) = Cardinality(keys)
    /\ {table[i][1] : i \in DOMAIN table} = keys

IsZero(score) == score.num = 0 /\ score.den # 0

----------------------------------------------------------------------------
\* C1: shortest_paths(G, v) returns a map whose keys are exactly the nodes
\* reachable from v and whose values are the least numbers of arcs of a
\* directed path from v (v itself 0), cycles, self-loops and duplicate arcs included.
C1_ShortestPathsMinimal ==
    ret.op = "shortest_paths" =>
        ret.val = HopMap(Arcs(graph), graph.nodes, ret.start)

\* a run that found a node two arcs away and left a node unreached
C1_Witness ==
    /\ ret.op = "shortest_paths"
    /\ \E w \in DOMAIN ret.val : ret.val[w] = 2
    /\ DOMAIN ret.val # graph.nodes

\* C2: a node whose distance map has n entries and distance sum S # 0 is
\* scored ((n - 1) / (N - 1)) * (n / S); a node with S = 0 is scored 0.
C2_ClosenessFormula ==
    cc.phase = "par" =>
        \A v \in DOMAIN cc.centralities :
            LET D == cc.shortest_paths[v]
                n == Cardinality(DOMAIN D)
                S == SumValues(D, DOMAIN D)
                N == graph.size
                score == cc.centralities[v]
            IN  IF S = 0 THEN IsZero(score)
                ELSE /\ score.den # 0
                     /\ score.num * (N - 1) * S = (n - 1) * n * score.den

C4_DegenerateScoresZero ==
    (ret.op \in {"out_degree_centrality", "in_degree_centrality"} /\ graph.size <= 1) =>
        /\ panicked = ""
        /\ \A i \in DOMAIN ret.val : IsZero(ret.val[i][2])

\* C5: with N > 1, out_degree_centrality returns one pair per node, scored
\* (length of the adjacency vector) / (N - 1), in descending order of score;
\* degree() returns one (node, out-degree) pair per adjacency key in
\* descending order of out-degree.
C5_DegreeCentrality ==
    /\ (ret.op = "out_degree_centrality" /\ graph.size > 1) =>
          /\ OnePairPer(ret.val, graph.nodes)
          /\ \A i \in DOMAIN ret.val :
                LET score == ret.val[i][2]
                IN  /\ score.den > 0
                    /\ score.num * (graph.size - 1) =
                          Len(graph.adjacency_dict[ret.val[i][1]]) * score.den
          /\ \A i, j \in DOMAIN ret.val :
                i < j => ret.val[i][2].num * ret.val[j][2].den
                             >= ret.val[j][2].num * ret.val[i][2].den
    /\ ret.op = "degree" =>
          /\ OnePairPer(ret.val, DOMAIN graph.adjacency_dict)
          /\ \A i \in DOMAIN ret.val :
                ret.val[i][2] = Len(graph.adjacency_dict[ret.val[i][1]])
          /\ \A i, j \in DOMAIN ret.val : i < j => ret.val[i][2] >= ret.val[j][2]

\* centralities of a graph with a self-loop, a duplicate arc and unequal scores
C5_Witness ==
    /\ ret.op = "out_degree_centrality"
    /\ graph.size > 1
    /\ HasSelfLoop(graph)
    /\ HasDuplicateArc(graph)
    /\ ret.val[1][2].num > ret.val[Len(ret.val)][2].num

\* C6: G.reverse() has the node set of G and, for every pair (u, v), as many
\* u in reverse.adjacency[v] as there are v in G.adjacency[u]; the call
\* leaves G unchanged.
C6_ReverseFlipsArcs ==
    [][ret'.op = "reverse" =>
          /\ graph' = graph
          /\ ret'.val.nodes = graph.nodes
          /\ ret'.val.size = graph.size
          /\ DOMAIN ret'.val.adjacency_dict = graph.nodes
          /\ \A u, v \in graph.nodes :
                Count(ret'.val.adjacency_dict[v], u) = Count(graph.adjacency_dict[u], v)
          /\ \A v \in graph.nodes : Range(ret'.val.adjacency_dict[v]) \subseteq graph.nodes
       ]_vars

\* the reverse of a graph with a duplicate arc and a self-loop
C6_Witness ==
    /\ ret.op = "reverse"
    /\ HasDuplicateArc(graph)
    /\ HasSelfLoop(graph)

\* C7: the graph built by init and the graph returned by reverse() satisfy
\* the graph invariant (adjacency keys = nodes, destinations in nodes, size =
\* number of nodes), and no lookup of init, reverse or shortest_paths fails.
C7_GraphInvariant ==
    /\ panicked = ""
    /\ pc = "built" => GraphInvariant(graph)
    /\ ret.op = "reverse" => GraphInvariant(ret.val)

\* the reverse of a built graph, with a self-loop and a duplicate arc
C7_Witness ==
    /\ pc = "built"
    /\ ret.op = "reverse"
    /\ HasSelfLoop(ret.val)
    /\ HasDuplicateArc(ret.val)

\* C8: every pop removes an entry whose distance is no greater than that of
\* any other entry of the queue, so the distances of successive pops never decrease.
C8_PopsAscending ==
    (sp.phase = "run" /\ sp.pq # EmptyBag) =>
        /\ \A f \in BagToSet(sp.pq) : PopEntry(sp.pq)[2] <= f[2]
        /\ sp.last # <<>> => sp.last[2] <= PopEntry(sp.pq)[2]

\* C9: the sort begins only after every node's computation has finished, the
\* collected result then holds exactly one pair per node, and no worker
\* changes the shared graph.
C9_JoinBeforeSort ==
    [][cc.phase = "par" =>
          /\ graph' = graph
          /\ cc'.phase = "par" => cc'.graph = cc.graph
          /\ cc'.phase = "idle" =>
                /\ cc.pending = {}
                /\ DOMAIN cc.centralities = graph.nodes
                /\ OnePairPer(ret'.val, graph.nodes)
       ]_vars

\* the sorted result of a fan-out over four nodes
C9_Witness ==
    /\ ret.op = "closeness_centrality"
    /\ graph.size = MaxNodes
    /\ Len(ret.val) = MaxNodes

\* C10: the loop of shortest_paths empties its queue and returns, every push
\* recording a new node or strictly lowering a node's recorded distance.
C10_Terminates ==
    /\ [][(sp.phase = "run" /\ sp'.phase = "run") =>
            \A e \in BagToSet(sp'.pq) \ BagToSet(sp.pq) :
                /\ e[1] \notin DOMAIN sp.distances \/ e[2] < sp.distances[e[1]]
                /\ sp'.distances[e[1]] <= e[2]
         ]_vars
    /\ (sp.phase = "run") ~> (ret.op = "shortest_paths")

\* a returned run whose start lies on a cycle and reaches a third node
C10_Witness ==
    /\ ret.op = "shortest_paths"
    /\ \E w \in graph.nodes :
          /\ w # ret.start
          /\ <<ret.start, w>> \in Arcs(graph)
          /\ <<w, ret.start>> \in Arcs(graph)
    /\ Cardinality(DOMAIN ret.val) >= 3

====
